---- MODULE Spec2Model ----
(***************************************************************************)
(* Model of the polling-compare-persist loop of the Polygon opportunity    *)
(* detector (src/src/main.rs, src/src/db.rs).                              *)
(*                                                                         *)
(* Amounts are U256 values written [hi, lo] = hi * 2^128 + lo, so that a   *)
(* quote that does not fit a u128 is a value of the model.  The two f64    *)
(* settings of the configuration and the f64 profit are IEEE-754 doubles   *)
(* written [neg, mant, exp] = (-1)^neg * mant * 2^exp with mant a 53-bit   *)
(* normalised significand (most significant bit first), <<>> for zero.     *)
(* Decimal settings are given in millionths (micro-USDC): the setting      *)
(* 0.000249 is the integer 249.                                            *)
(***************************************************************************)
EXTENDS Integers, Sequences, FiniteSets, TLC

\* ---------------------------------------------------------------- bounds
MaxTicks == 2

\* the settings <<simulated_gas_cost, min_profit_threshold>> of config.toml that
\* are explored, in millionths of a USDC
Settings == {<<0, -1>>, <<0, 248>>, <<0, 249>>, <<249, 248>>, <<20000, 248>>}
\* check_interval_secs values of config.toml that are explored
Intervals == {0, 1}
\* low words of the amounts a venue may answer
QuoteLows == {999999, 1000000, 1000249, 1950000, 2000000}

\* ---------------------------------------------------- program constants
SanityFloor == 1000000
Pow5Scale == 15625
Pow2Scale == 6
\* limb of the long division and multiplication below (arithmetic on 16-bit limbs)
LimbBase == 2 ^ 16

\* ------------------------------------------------------- IEEE-754 doubles
\* Bit strings are sequences of 0/1, most significant bit first.
Zeros(k) == [i \in 1..k |-> 0]

BitLen(n) == IF n = 0 THEN 0 ELSE CHOOSE k \in 1..31 : n \div (2 ^ (k - 1)) = 1

NatToBits(n, w) == [i \in 1..w |-> (n \div (2 ^ (w - i))) % 2]

Bits(n) == NatToBits(n, BitLen(n))

RECURSIVE BitsToNat(_)
BitsToNat(bs) ==
    IF Len(bs) = 0 THEN 0
    ELSE IF Len(bs) = 1 THEN bs[1]
    ELSE LET h == Len(bs) \div 2
         IN  BitsToNat(SubSeq(bs, 1, h)) * (2 ^ (Len(bs) - h)) + BitsToNat(SubSeq(bs, h + 1, Len(bs)))

StripLeadingZeros(bs) ==
    IF \A i \in 1..Len(bs) : bs[i] = 0 THEN <<>>
    ELSE LET k == CHOOSE i \in 1..Len(bs) : bs[i] = 1 /\ \A j \in 1..(i - 1) : bs[j] = 0
         IN  SubSeq(bs, k, Len(bs))

Inc(bs) ==
    IF \A i \in 1..Len(bs) : bs[i] = 1 THEN <<1>> \o Zeros(Len(bs))
    ELSE LET k == CHOOSE i \in 1..Len(bs) : bs[i] = 0 /\ \A j \in (i + 1)..Len(bs) : bs[j] = 1
         IN  [i \in 1..Len(bs) |-> IF i < k THEN bs[i] ELSE IF i = k THEN 1 ELSE 0]

\* 0.0
F64Zero == [neg |-> FALSE, mant |-> <<>>, exp |-> 0]

\* The double nearest to bits * 2^exp (ties to even); sticky says that the exact
\* value has further non-zero bits below the last bit of bits.
RoundToF64(neg, bits, exp, sticky) ==
    LET n == Len(bits) IN
    IF n = 0 THEN F64Zero
    ELSE IF n <= 53 THEN [neg |-> neg, mant |-> bits \o Zeros(53 - n), exp |-> exp - (53 - n)]
    ELSE LET keep == SubSeq(bits, 1, 53)
             st   == sticky \/ \E i \in 55..n : bits[i] = 1
             up   == bits[54] = 1 /\ (st \/ keep[53] = 1)
             m    == IF up THEN Inc(keep) ELSE keep
         IN  IF Len(m) = 54
             THEN [neg |-> neg, mant |-> SubSeq(m, 1, 53), exp |-> exp + (n - 53) + 1]
             ELSE [neg |-> neg, mant |-> m, exp |-> exp + (n - 53)]

\* `n as f64` for a u128 n (main.rs:150).
U128AsF64(n) == RoundToF64(FALSE, Bits(n), 0, FALSE)

Limb(bits, i) == BitsToNat(SubSeq(bits, 16 * (i - 1) + 1, 16 * i))

RECURSIVE LongDiv(_, _, _, _, _)
LongDiv(bits, d, i, rem, acc) ==
    IF 16 * i > Len(bits) THEN [quot |-> acc, rem |-> rem]
    ELSE LET t == LimbBase * rem + Limb(bits, i)
         IN  LongDiv(bits, d, i + 1, t % d, acc \o NatToBits(t \div d, 16))

RECURSIVE MulSmall(_, _, _, _, _)
MulSmall(bits, c, i, carry, acc) ==
    IF i = 0 THEN NatToBits(carry, 16) \o acc
    ELSE LET t == Limb(bits, i) * c + carry
         IN  MulSmall(bits, c, i - 1, t \div LimbBase, NatToBits(t % LimbBase, 16) \o acc)

\* x / 1e6 in f64 arithmetic: 1e6 = 5^6 * 2^6, one correctly rounded division.
F64DivBy1e6(x) ==
    IF x.mant = <<>> THEN x
    ELSE LET r == LongDiv(x.mant \o Zeros(27), Pow5Scale, 1, 0, <<>>)
         IN  RoundToF64(x.neg, StripLeadingZeros(r.quot), x.exp - 27 - Pow2Scale, r.rem # 0)

\* x * 1e6 in f64 arithmetic, one correctly rounded multiplication.
F64MulBy1e6(x) ==
    IF x.mant = <<>> THEN x
    ELSE RoundToF64(x.neg, StripLeadingZeros(MulSmall(Zeros(11) \o x.mant, Pow5Scale, 4, 0, <<>>)),
                    x.exp + Pow2Scale, FALSE)

\* `x as u128`: truncation toward zero, negative values saturate to 0.
F64AsU128(x) ==
    IF x.neg \/ x.mant = <<>> \/ 53 + x.exp <= 0 THEN 0
    ELSE BitsToNat(SubSeq(x.mant, 1, 53 + x.exp))

MagGt(x, y) ==
    \/ x.exp > y.exp
    \/ /\ x.exp = y.exp
       /\ \E i \in 1..53 : x.mant[i] > y.mant[i] /\ \A j \in 1..(i - 1) : x.mant[j] = y.mant[j]

\* x > y on doubles.
F64Gt(x, y) ==
    IF x.mant = <<>> THEN y.mant # <<>> /\ y.neg
    ELSE IF y.mant = <<>> THEN ~x.neg
    ELSE IF x.neg # y.neg THEN ~x.neg
    ELSE IF x.neg THEN MagGt(y, x) ELSE MagGt(x, y)

\* The f64 that toml::from_str yields for the decimal literal t * 10^-6: the
\* double nearest to t / 10^6, which is also what the correctly rounded
\* division of the (exactly representable) integer |t| by 1e6 gives.
ParseF64Micro(t) ==
    LET m == F64DivBy1e6(U128AsF64(IF t < 0 THEN -t ELSE t))
    IN  [m EXCEPT !.neg = (t < 0 /\ m.mant # <<>>)]


\* ------------------------------------------------------------ U256 amounts
U256(hi, lo) == [hi |-> hi, lo |-> lo]
U256Zero == U256(0, 0)
U256From(n) == U256(0, n)

U256Lt(x, y) == x.hi < y.hi \/ (x.hi = y.hi /\ x.lo < y.lo)
U256Gt(x, y) == U256Lt(y, x)

\* U256::as_u128 panics when the value does not fit 128 bits.
AsU128Panics(x) == x.hi # 0
AsU128(x) == x.lo

\* ------------------------------------------------------------ environment
Quotes == {U256From(q) : q \in QuoteLows} \cup {U256(1, 0)}

\* fixed_trade_size, the first element of every answer of a router
TradeAmount == U256From(1)

\* what getAmountsOut may decode to
Responses ==
    {<<>>, <<U256From(2000000)>>,
     <<TradeAmount, U256From(1000000), U256From(2000000)>>}
    \cup {<<TradeAmount, q>> : q \in Quotes}

CallResults == {[ok |-> TRUE, val |-> r] : r \in Responses} \cup {[ok |-> FALSE, val |-> <<>>]}

ConfigFiles ==
    {[simulated_gas_cost |-> c[1], min_profit_threshold |-> c[2], check_interval_secs |-> i] :
        c \in Settings, i \in Intervals}

NoConfig == [simulated_gas_cost |-> F64Zero, min_profit_threshold |-> F64Zero,
             check_interval_secs |-> 0]

\* db.rs:5-15  what table.db holds when the process starts: nothing (the file
\* is new), or the table with a row that an earlier run wrote; a timestamp
\* of 0 is a time before this run
OldRow == [id |-> 1, buy_dex |-> "QuickSwap", sell_dex |-> "SushiSwap",
           profit_usdc |-> F64DivBy1e6(U128AsF64(1)), timestamp |-> 0]
TableFiles == {<<>>, <<OldRow>>}

\* db.rs:8  AUTOINCREMENT: sqlite_sequence continues after the largest id used
NextIdOf(rows) == IF rows = <<>> THEN 1 ELSE rows[Len(rows)].id + 1

\* ------------------------------------------------------------------ state
VARIABLES
    config_toml,   \* the settings written in config.toml (millionths)
    abi_json,      \* TRUE iff the ABI file describes getAmountsOut
    table_db,      \* the rows table.db held when the process started
    config,        \* the Config struct: the two f64 settings
    pc,            \* position of main
    result,        \* "running", or how main ended
    table_created, \* the table of db.rs exists
    con_open,      \* the connection of main.rs:82 is open
    store,         \* rows of arbitrage_opportunities, in insertion order
    next_id,       \* next AUTOINCREMENT id
    ticks,         \* ticks of the interval so far; also the clock of Utc::now
    dex1_out,      \* locals of the current iteration
    dex2_out,
    resolved,      \* venues whose call of this iteration has resolved
    ev,            \* locals computed by the evaluation of this iteration
    log            \* lines printed by this iteration

vars == <<config_toml, abi_json, table_db, config, pc, result, table_created, con_open,
          store, next_id, ticks, dex1_out, dex2_out, resolved, ev, log>>

NoEval == [dex1_price_raw |-> U256Zero, dex2_price_raw |-> U256Zero,
           buy_dex |-> "", sell_dex |-> "", gas_cost |-> 0, diff |-> 0,
           profit |-> 0, profit_in_usdc |-> F64Zero]

Init ==
    /\ config_toml \in ConfigFiles
    /\ abi_json \in BOOLEAN
    /\ table_db \in TableFiles
    /\ config = NoConfig
    /\ pc = "load_config"
    /\ result = "running"
    /\ table_created = (table_db # <<>>)
    /\ con_open = FALSE
    /\ store = table_db
    /\ next_id = NextIdOf(table_db)
    /\ ticks = 0
    /\ dex1_out = <<>>
    /\ dex2_out = <<>>
    /\ resolved = {}
    /\ ev = NoEval
    /\ log = <<>>

\* ---------------------------------------------------------------- startup
\* an error that is dropped: main goes back to waiting for the timer
ExitContinue(r) == pc' = "Idle" /\ UNCHANGED result
Exit(r) == pc' = "Exited" /\ result' = r

\* main.rs:59  load_config("config.toml")?
LoadConfig ==
    /\ pc = "load_config"
    /\ \E ok \in BOOLEAN :
         IF ok
         THEN /\ config' = [simulated_gas_cost   |-> ParseF64Micro(config_toml.simulated_gas_cost),
                            min_profit_threshold |-> ParseF64Micro(config_toml.min_profit_threshold),
                            check_interval_secs  |-> config_toml.check_interval_secs]
              /\ pc' = "load_abi"
              /\ UNCHANGED result
         ELSE Exit("Err(load_config)") /\ UNCHANGED config
    /\ UNCHANGED <<config_toml, abi_json, table_db, table_created, con_open, store, next_id, ticks,
                   dex1_out, dex2_out, resolved, ev, log>>

\* main.rs:63  load_abi(...)?
LoadAbi ==
    /\ pc = "load_abi"
    /\ \E ok \in BOOLEAN :
         IF ok THEN pc' = "init_db" /\ UNCHANGED result
         ELSE Exit("Err(load_abi)")
    /\ UNCHANGED <<config_toml, abi_json, table_db, config, table_created, con_open, store, next_id,
                   ticks, dex1_out, dex2_out, resolved, ev, log>>

\* the result of init_db is dropped: main goes on without the table
InitDbIgnored ==
    /\ pc = "init_db"
    /\ \E ok \in BOOLEAN :
         IF ok THEN table_created' = TRUE /\ pc' = "setup" /\ UNCHANGED result
         ELSE pc' = "setup" /\ UNCHANGED <<table_created, result>>
    /\ UNCHANGED <<config_toml, abi_json, table_db, config, con_open, store, next_id, ticks,
                   dex1_out, dex2_out, resolved, ev, log>>

\* main.rs:66, db.rs:4-18  db::init_db()?
InitDb ==
    /\ pc = "init_db"
    /\ \E ok \in BOOLEAN :
         IF ok THEN table_created' = TRUE /\ pc' = "setup" /\ UNCHANGED result
         ELSE Exit("Err(init_db)") /\ UNCHANGED table_created
    /\ UNCHANGED <<config_toml, abi_json, table_db, config, con_open, store, next_id, ticks,
                   dex1_out, dex2_out, resolved, ev, log>>

\* main.rs:69-80  provider, addresses, contracts
Setup ==
    /\ pc = "setup"
    /\ \E ok \in BOOLEAN :
         IF ok THEN pc' = "open_db" /\ UNCHANGED result
         ELSE Exit("Err(setup)")
    /\ UNCHANGED <<config_toml, abi_json, table_db, config, table_created, con_open, store, next_id,
                   ticks, dex1_out, dex2_out, resolved, ev, log>>

\* main.rs:82  Connection::open("table.db")?
OpenDb ==
    /\ pc = "open_db"
    /\ \E ok \in BOOLEAN :
         IF ok THEN con_open' = TRUE /\ pc' = "make_interval" /\ UNCHANGED result
         ELSE Exit("Err(open_db)") /\ UNCHANGED con_open
    /\ UNCHANGED <<config_toml, abi_json, table_db, config, table_created, store, next_id, ticks,
                   dex1_out, dex2_out, resolved, ev, log>>

\* main.rs:86  interval(Duration::from_secs(check_interval_secs)) panics when
\* the period is zero
MakeInterval ==
    /\ pc = "make_interval"
    /\ IF config.check_interval_secs = 0 THEN Exit("panic(interval)")
       ELSE pc' = "Idle" /\ UNCHANGED result
    /\ UNCHANGED <<config_toml, abi_json, table_db, config, table_created, con_open, store,
                   next_id, ticks, dex1_out, dex2_out, resolved, ev, log>>

\* ------------------------------------------------------------ the evaluator
\* main.rs:99, 109  the answer substituted for a failed call
FailedAnswerValid == <<TradeAmount, U256From(SanityFloor)>>
FailedAnswer == <<U256Zero, U256Zero>>

\* the last element of the answer instead of the element of index 1
PriceRawLast(out) == IF Len(out) >= 1 THEN out[Len(out)] ELSE U256Zero
\* the element of index 0 instead of the element of index 1
PriceRawFirst(out) == IF Len(out) >= 1 THEN out[1] ELSE U256Zero
\* main.rs:115-116  out.get(1).cloned().unwrap_or(U256::zero())
PriceRaw(out) == IF Len(out) >= 2 THEN out[2] ELSE U256Zero

\* main.rs:118  the validity gate
InvalidBoth(p1, p2) == U256Lt(p1, U256From(SanityFloor)) /\ U256Lt(p2, U256From(SanityFloor))
Invalid(p1, p2) == U256Lt(p1, U256From(SanityFloor)) \/ U256Lt(p2, U256From(SanityFloor))

\* main.rs:128-141  direction
DirectionSwapped(p1, p2) ==
    IF U256Gt(p1, p2) THEN [buy_dex |-> "QuickSwap", sell_dex |-> "SushiSwap", line |-> "possible buy on QuickSwap and sell on SushiSwap"]
    ELSE IF U256Gt(p2, p1) THEN [buy_dex |-> "SushiSwap", sell_dex |-> "QuickSwap", line |-> "possible buy on SushiSwap and sell on QuickSwap"]
    ELSE [buy_dex |-> "", sell_dex |-> "", line |-> "both are same, no arbitrage"]
Direction(p1, p2) ==
    IF U256Gt(p1, p2) THEN [buy_dex |-> "SushiSwap", sell_dex |-> "QuickSwap", line |-> "possible buy on SushiSwap and sell on QuickSwap"]
    ELSE IF U256Gt(p2, p1) THEN [buy_dex |-> "QuickSwap", sell_dex |-> "SushiSwap", line |-> "possible buy on QuickSwap and sell on SushiSwap"]
    ELSE [buy_dex |-> "", sell_dex |-> "", line |-> "both are same, no arbitrage"]

\* main.rs:143  U256::from((simulated_gas_cost * 1e6) as u128)
GasCost(c) == F64AsU128(F64MulBy1e6(c.simulated_gas_cost))

\* main.rs:144-148  both operands have passed as_u128, so hi = 0
Diff(p1, p2) == IF U256Gt(p1, p2) THEN p1.lo - p2.lo ELSE p2.lo - p1.lo

\* the distance between the difference and the gas cost instead of the floor at 0
ProfitAbs(diff, gas_cost) == IF diff > gas_cost THEN diff - gas_cost ELSE gas_cost - diff
\* main.rs:149
Profit(diff, gas_cost) == IF diff > gas_cost THEN diff - gas_cost ELSE 0

\* main.rs:150  profit.as_u128() as f64 / 1e6
ProfitInUsdcIntDiv(profit) == U128AsF64(profit \div 1000000)
ProfitInUsdc(profit) == F64DivBy1e6(U128AsF64(profit))

\* main.rs:154  profit_in_usdc > config.simulation.min_profit_threshold
WorthItGe(profit_in_usdc, c) == ~F64Gt(c.min_profit_threshold, profit_in_usdc)
WorthIt(profit_in_usdc, c) == F64Gt(profit_in_usdc, c.min_profit_threshold)

\* a row whose id is not taken from the AUTOINCREMENT counter
RowFixedId(id, e, now) ==
    [id |-> 1, buy_dex |-> e.buy_dex, sell_dex |-> e.sell_dex,
     profit_usdc |-> e.profit_in_usdc, timestamp |-> now]

\* main.rs:156-160  the row of the INSERT
Row(id, e, now) ==
    [id |-> id, buy_dex |-> e.buy_dex, sell_dex |-> e.sell_dex,
     profit_usdc |-> e.profit_in_usdc, timestamp |-> now]

\* --------------------------------------------------------------- the loop
\* a timer that starts the next iteration without waiting for the current one
TickOverlapping ==
    /\ pc \in {"Idle", "FetchingDex2", "Evaluating"}
    /\ ticks < MaxTicks
    /\ ticks' = ticks + 1
    /\ log' = <<"checking prices now...">>
    /\ dex1_out' = <<>>
    /\ dex2_out' = <<>>
    /\ resolved' = {}
    /\ ev' = NoEval
    /\ IF abi_json THEN pc' = "FetchingDex1" /\ UNCHANGED result
       ELSE Exit("Err(method)")
    /\ UNCHANGED <<config_toml, abi_json, table_db, config, table_created, con_open, store, next_id>>

\* main.rs:88-94  the interval fires; the first method(..)? fails when the
\* ABI has no getAmountsOut
Tick ==
    /\ pc = "Idle"
    /\ ticks < MaxTicks
    /\ ticks' = ticks + 1
    /\ log' = <<"checking prices now...">>
    /\ dex1_out' = <<>>
    /\ dex2_out' = <<>>
    /\ resolved' = {}
    /\ ev' = NoEval
    /\ IF abi_json THEN pc' = "FetchingDex1" /\ UNCHANGED result
       ELSE Exit("Err(method)")
    /\ UNCHANGED <<config_toml, abi_json, table_db, config, table_created, con_open, store, next_id>>

\* main.rs:103-106  the second call is issued once the first has resolved
AfterDex1NoJoin == "Evaluating"
AfterDex1 == "FetchingDex2"

\* main.rs:93-100  the QuickSwap call resolves
Dex1Resolve ==
    /\ pc = "FetchingDex1"
    /\ \E r \in CallResults :
         IF r.ok THEN dex1_out' = r.val /\ UNCHANGED log
         ELSE dex1_out' = FailedAnswer /\ log' = Append(log, "error in quickswap")
    /\ resolved' = resolved \cup {"QuickSwap"}
    /\ pc' = AfterDex1
    /\ UNCHANGED <<config_toml, abi_json, table_db, config, result, table_created, con_open, store,
                   next_id, ticks, dex2_out, ev>>

\* main.rs:103-112  the SushiSwap call resolves
Dex2Resolve ==
    /\ pc = "FetchingDex2"
    /\ \E r \in CallResults :
         IF r.ok THEN dex2_out' = r.val /\ log' = Append(log, "raw output")
         ELSE /\ dex2_out' = FailedAnswer
              /\ log' = log \o <<"error in sushiswap", "raw output">>
    /\ resolved' = resolved \cup {"SushiSwap"}
    /\ pc' = "Evaluating"
    /\ UNCHANGED <<config_toml, abi_json, table_db, config, result, table_created, con_open, store,
                   next_id, ticks, dex1_out, ev>>

\* main.rs:115-165  gate, direction, profit, decision, insert
Evaluate ==
    /\ pc = "Evaluating"
    /\ LET p1 == PriceRaw(dex1_out)
           p2 == PriceRaw(dex2_out)
           prices == [NoEval EXCEPT !.dex1_price_raw = p1, !.dex2_price_raw = p2]
       IN
       IF Invalid(p1, p2)
       THEN /\ log' = Append(log, "invalid price")
            /\ ev' = prices
            /\ pc' = "Idle"
            /\ UNCHANGED <<result, store, next_id>>
       ELSE IF AsU128Panics(p1) \/ AsU128Panics(p2)
       THEN /\ Exit("panic(as_u128)")
            /\ ev' = prices
            /\ UNCHANGED <<log, store, next_id>>
       ELSE
         LET d        == Direction(p1, p2)
             gas_cost == GasCost(config)
             diff     == Diff(p1, p2)
             profit   == Profit(diff, gas_cost)
             e        == [dex1_price_raw |-> p1, dex2_price_raw |-> p2,
                          buy_dex |-> d.buy_dex, sell_dex |-> d.sell_dex,
                          gas_cost |-> gas_cost, diff |-> diff, profit |-> profit,
                          profit_in_usdc |-> ProfitInUsdc(profit)]
             printed  == log \o <<"prices", d.line, "simulated profit after gas">>
         IN
         /\ ev' = e
         /\ IF WorthIt(e.profit_in_usdc, config)
            THEN \E ok \in BOOLEAN :
                   IF ok
                   THEN /\ store' = Append(store, Row(next_id, e, ticks))
                        /\ next_id' = next_id + 1
                        /\ log' = printed \o <<"!!!! Arbitrage found !!!!", "Saved to database!">>
                        /\ pc' = "Idle"
                        /\ UNCHANGED result
                   ELSE /\ Exit("Err(insert)")
                        /\ log' = Append(printed, "!!!! Arbitrage found !!!!")
                        /\ UNCHANGED <<store, next_id>>
            ELSE /\ log' = Append(printed, "profit is small, not worth it")
                 /\ pc' = "Idle"
                 /\ UNCHANGED <<result, store, next_id>>
    /\ UNCHANGED <<config_toml, abi_json, table_db, config, table_created, con_open, ticks,
                   dex1_out, dex2_out, resolved>>

Next ==
    \/ LoadConfig
    \/ LoadAbi
    \/ InitDb
    \/ Setup
    \/ OpenDb
    \/ MakeInterval
    \/ Tick
    \/ Dex1Resolve
    \/ Dex2Resolve
    \/ Evaluate

Spec == Init /\ [][Next]_vars

\* ------------------------------------------------------------- properties
InLog(m) == \E i \in DOMAIN log : log[i] = m

Venues == {"QuickSwap", "SushiSwap"}

\* the evaluation of this iteration got past the gate and the casts
Evaluated == InLog("simulated profit after gas")

\* a quote at or above the sanity floor, in raw units
AtLeastFloor(q) == q.hi > 0 \/ q.lo >= SanityFloor
BelowFloor(q) == q.hi = 0 /\ q.lo < SanityFloor

\* the rows this process has inserted: those after the rows table.db held
\* when the process started
InsertedRows == {i \in DOMAIN store : i > Len(table_db)}

\* the row written by the current iteration, if any
RowsOfThisTick == {i \in InsertedRows : store[i].timestamp = ticks}

\* C1: every record in the store was inserted in a tick whose computed
\* profit_usdc was strictly greater than the minimum-profit threshold
\* configured for that tick: a step that adds a record is an evaluation whose
\* profit exceeds the threshold and the record carries that profit, every
\* record this process has inserted exceeds its threshold, the records
\* table.db held from earlier runs are kept as they are, and an evaluation
\* whose profit is less than or equal to the threshold leaves the store
\* unchanged.
C1_RecordsExceedThreshold ==
    /\ [][Len(store') > Len(store)
          => /\ pc = "Evaluating"
             /\ F64Gt(ev'.profit_in_usdc, config.min_profit_threshold)
             /\ store'[Len(store')].profit_usdc = ev'.profit_in_usdc]_vars
    /\ [](\A i \in InsertedRows :
            F64Gt(store[i].profit_usdc, config.min_profit_threshold))
    /\ [](Len(store) >= Len(table_db) /\ SubSeq(store, 1, Len(table_db)) = table_db)
    /\ [][(pc = "Evaluating"
           /\ ~F64Gt(ev'.profit_in_usdc, config.min_profit_threshold))
          => store' = store]_vars

C1_Witness ==
    /\ pc = "Idle"
    /\ table_db = <<OldRow>>
    /\ ~F64Gt(store[1].profit_usdc, config.min_profit_threshold)
    /\ Len(store) = 2
    /\ store[2].timestamp = 1
    /\ ticks = 2
    /\ Evaluated
    /\ InLog("profit is small, not worth it")
    /\ ev.profit = config_toml.min_profit_threshold

\* a is the lower of two amounts, by their 256-bit value
Lower(a, b) == a.hi < b.hi \/ (a.hi = b.hi /\ a.lo < b.lo)

\* C2: for valid, unequal quotes the evaluator's direction buys on the venue
\* with the lower quote and sells on the venue with the higher quote, the
\* direction of the swapped quotes is the swapped direction, and these are
\* the venues the evaluation of the tick records.
C2_DirectionByLowerQuote ==
    LET a == PriceRaw(dex1_out)
        b == PriceRaw(dex2_out)
    IN  (/\ resolved = Venues
         /\ AtLeastFloor(a)
         /\ AtLeastFloor(b)
         /\ a # b)
        => /\ Lower(b, a) => /\ Direction(a, b).buy_dex = "SushiSwap"
                             /\ Direction(a, b).sell_dex = "QuickSwap"
           /\ Lower(a, b) => /\ Direction(a, b).buy_dex = "QuickSwap"
                             /\ Direction(a, b).sell_dex = "SushiSwap"
           /\ Direction(b, a).buy_dex = Direction(a, b).sell_dex
           /\ Direction(b, a).sell_dex = Direction(a, b).buy_dex
           /\ Evaluated => /\ Lower(b, a) => ev.buy_dex = "SushiSwap" /\ ev.sell_dex = "QuickSwap"
                           /\ Lower(a, b) => ev.buy_dex = "QuickSwap" /\ ev.sell_dex = "SushiSwap"

C2_Witness ==
    /\ Evaluated
    /\ dex1_out = <<TradeAmount, U256From(2000000)>>
    /\ dex2_out = <<TradeAmount, U256From(1950000)>>
    /\ ev.buy_dex = "SushiSwap"
    /\ ev.sell_dex = "QuickSwap"
    /\ config_toml.simulated_gas_cost = 20000
    /\ ev.profit = 30000
    /\ Len(store) = 1

\* C3: an evaluation in which at least one raw quote is below the sanity
\* floor prints "invalid price", returns to Idle and leaves the store
\* unchanged, whatever the other quote, the gas cost and the threshold.
C3_BelowFloorDiscarded ==
    [][(pc = "Evaluating"
        /\ (BelowFloor(PriceRaw(dex1_out)) \/ BelowFloor(PriceRaw(dex2_out))))
       => /\ store' = store
          /\ next_id' = next_id
          /\ pc' = "Idle"
          /\ result' = "running"
          /\ log' = Append(log, "invalid price")]_vars

C3_Witness ==
    /\ pc = "Idle"
    /\ InLog("invalid price")
    /\ ev.dex1_price_raw = U256From(999999)
    /\ ev.dex2_price_raw = U256From(1000249)
    /\ config_toml.min_profit_threshold < 0
    /\ store = <<>>

\* C4: an evaluation of two equal quotes at or above the sanity floor
\* inserts no record, for every gas cost and every threshold.
C4_EqualQuotesNoRecord ==
    [][(pc = "Evaluating"
        /\ AtLeastFloor(PriceRaw(dex1_out))
        /\ PriceRaw(dex1_out) = PriceRaw(dex2_out))
       => store' = store]_vars

\* C5: a failed quote call is replaced by a zero quote, the evaluation of
\* that tick is discarded by the validity gate without a record, the process
\* keeps running in Idle and the next tick can start.
C5_FailedCallDiscardsTick ==
    /\ []((InLog("error in quickswap") => PriceRaw(dex1_out) = U256Zero)
          /\ (InLog("error in sushiswap") => PriceRaw(dex2_out) = U256Zero))
    /\ [][(pc = "Evaluating" /\ (InLog("error in quickswap") \/ InLog("error in sushiswap")))
          => /\ store' = store
             /\ pc' = "Idle"
             /\ result' = "running"
             /\ InLog("invalid price")']_vars
    /\ []((pc = "Idle" /\ InLog("invalid price") /\ ticks < MaxTicks) => ENABLED Tick)

C5_Witness ==
    /\ pc = "Idle"
    /\ result = "running"
    /\ InLog("error in quickswap")
    /\ dex1_out = <<U256Zero, U256Zero>>
    /\ dex2_out = <<TradeAmount, U256From(1000249)>>
    /\ InLog("invalid price")
    /\ config_toml.min_profit_threshold < 0
    /\ store = <<>>
    /\ ticks = 1
    /\ ENABLED Tick

\* C6: a failed insert does not stop the loop: the process is still running
\* and back in Idle.
C6_InsertFailureKeepsLoop ==
    [][(pc = "Evaluating" /\ Evaluated' /\ InLog("!!!! Arbitrage found !!!!")'
        /\ ~InLog("Saved to database!")')
       => pc' = "Idle" /\ result' = "running"]_vars

\* C7: every stored record names two different known venues, and a record
\* is written with buy_dex the venue of the lower quote and sell_dex the
\* venue of the higher quote of the tick that wrote it.
C7_RecordsNameDistinctVenues ==
    /\ [](\A i \in DOMAIN store :
            /\ store[i].buy_dex \in Venues
            /\ store[i].sell_dex \in Venues
            /\ store[i].buy_dex # store[i].sell_dex)
    /\ [][Len(store') > Len(store)
          => LET r == store'[Len(store')]
                 a == PriceRaw(dex1_out)
                 b == PriceRaw(dex2_out)
             IN  /\ a.lo < b.lo => r.buy_dex = "QuickSwap" /\ r.sell_dex = "SushiSwap"
                 /\ a.lo > b.lo => r.buy_dex = "SushiSwap" /\ r.sell_dex = "QuickSwap"]_vars

\* the raw gas cost of the claim: the configured gas cost times 1,000,000
ClaimGasRaw == config_toml.simulated_gas_cost

AbsDiff(a, b) == IF a > b THEN a - b ELSE b - a

\* C8: for valid quotes a, b the raw profit of the tick is |a - b| - gasRaw
\* when |a - b| > gasRaw and 0 otherwise, gasRaw being the configured gas
\* cost times 1,000,000.
C8_ProfitFormula ==
    Evaluated =>
        LET d == AbsDiff(ev.dex1_price_raw.lo, ev.dex2_price_raw.lo)
        IN  /\ ev.profit = IF d > ClaimGasRaw THEN d - ClaimGasRaw ELSE 0
            /\ ev.profit >= 0

\* C9: evaluation happens only when both quote calls of the tick have
\* resolved.
C9_EvaluationAfterBothResolve ==
    (pc = "Evaluating" \/ InLog("invalid price") \/ Evaluated) => resolved = Venues

C9_Witness ==
    /\ pc = "Evaluating"
    /\ resolved = Venues
    /\ InLog("error in quickswap")
    /\ dex2_out = <<TradeAmount, U256From(1000249)>>

\* C10: for valid, unequal quotes, a raw profit equal to the threshold writes
\* no record, and a raw profit one unit above the threshold reaches the
\* insert, which writes the record of this tick when it succeeds.
C10_ThresholdBoundary ==
    (Evaluated /\ ev.dex1_price_raw # ev.dex2_price_raw)
    => /\ ev.profit = config_toml.min_profit_threshold
            => InLog("profit is small, not worth it") /\ RowsOfThisTick = {}
       /\ ev.profit = config_toml.min_profit_threshold + 1
            => /\ InLog("!!!! Arbitrage found !!!!")
               /\ result = "running"
                    => \E i \in RowsOfThisTick :
                         /\ store[i].profit_usdc = ev.profit_in_usdc
                         /\ store[i].buy_dex = ev.buy_dex
                         /\ store[i].sell_dex = ev.sell_dex

C10_Witness ==
    /\ pc = "Idle"
    /\ Evaluated
    /\ config_toml.min_profit_threshold = 248
    /\ ev.profit = 249
    /\ Len(store) = 2
    /\ store[2].timestamp = 2
    /\ store[2].profit_usdc = ev.profit_in_usdc

\* the iteration whose lines are in the log has run to its end
TickComplete ==
    \/ InLog("invalid price")
    \/ InLog("Saved to database!")
    \/ InLog("profit is small, not worth it")

\* C11: ticks never overlap: a tick starts (and with it the first quote call
\* is issued) only from Idle, after the previous tick has run to its end, and
\* a quote call resolves only while the tick that issued it is fetching.
C11_TicksNeverOverlap ==
    /\ [][ticks' # ticks
          => /\ pc = "Idle"
             /\ ticks' = ticks + 1
             /\ ticks > 0 => TickComplete]_vars
    /\ [][resolved' # resolved /\ resolved' # {}
          => pc \in {"FetchingDex1", "FetchingDex2"} /\ ~TickComplete /\ ticks' = ticks]_vars

C11_Witness ==
    /\ pc = "FetchingDex2"
    /\ ticks = 2
    /\ Len(store) = 1
    /\ store[1].timestamp = 1
    /\ resolved = {"QuickSwap"}

\* C12: the store is append-only: a step leaves it unchanged or appends one
\* row to it, a tick writes at most one row, and the ids of the rows are
\* pairwise different.
C12_StoreAppendOnly ==
    /\ [][\/ store' = store
          \/ /\ Len(store') = Len(store) + 1
             /\ SubSeq(store', 1, Len(store)) = store]_vars
    /\ [](\A i, j \in DOMAIN store :
            /\ i # j => store[i].id # store[j].id
            /\ i # j => store[i].timestamp # store[j].timestamp)

C12_Witness ==
    /\ Len(store) = 2
    /\ store[1].id = 1
    /\ store[2].id = 2
    /\ store[1].timestamp = 1
    /\ store[2].timestamp = 2

\* both quote calls of this iteration returned an answer
BothCallsSucceeded ==
    /\ resolved = Venues
    /\ ~InLog("error in quickswap")
    /\ ~InLog("error in sushiswap")

\* C13: for every pair of successfully returned quotes, of any magnitude up
\* to 256 bits, the evaluation completes and returns to Idle with the
\* process running (a failing insert, the case of C6, is left aside).
C13_AnyMagnitudeCompletes ==
    [][(pc = "Evaluating" /\ BothCallsSucceeded)
       => \/ pc' = "Idle" /\ result' = "running"
          \/ result' = "Err(insert)"]_vars

\* the final element of an answer, as the claim reads it
FinalElement(out) == out[Len(out)]

\* C14 as stated: the quote the evaluation uses for a venue is the final
\* element of the answer of that venue, for every non-empty answer.
C14_QuoteIsFinalElement ==
    (pc \in {"Idle", "Exited"} /\ resolved = Venues /\ BothCallsSucceeded)
    => /\ Len(dex1_out) >= 1 => ev.dex1_price_raw = FinalElement(dex1_out)
       /\ Len(dex2_out) >= 1 => ev.dex2_price_raw = FinalElement(dex2_out)

\* C14 as amended: the quote the evaluation uses for a venue is the element
\* of index 1 of the answer, which is its final element when the answer has
\* exactly two elements, and zero when the answer has fewer than two.
C14_QuoteIsSecondElement ==
    (pc \in {"Idle", "Exited"} /\ resolved = Venues)
    => /\ Len(dex1_out) >= 2 => ev.dex1_price_raw = dex1_out[2]
       /\ Len(dex2_out) >= 2 => ev.dex2_price_raw = dex2_out[2]
       /\ Len(dex1_out) = 2 => ev.dex1_price_raw = FinalElement(dex1_out)
       /\ Len(dex2_out) = 2 => ev.dex2_price_raw = FinalElement(dex2_out)
       /\ Len(dex1_out) < 2 => ev.dex1_price_raw = U256Zero
       /\ Len(dex2_out) < 2 => ev.dex2_price_raw = U256Zero

C14_Witness ==
    /\ pc = "Idle"
    /\ Evaluated
    /\ dex1_out = <<TradeAmount, U256From(1000000), U256From(2000000)>>
    /\ dex2_out = <<TradeAmount, U256From(1000249)>>
    /\ ev.dex1_price_raw = U256From(1000000)
    /\ ev.dex2_price_raw = U256From(1000249)
    /\ ev.diff = 249

\* the valid quotes that are compared with the QuickSwap quote of the tick
ValidLows == {q \in QuoteLows : q >= SanityFloor}

\* C15: for the gas cost and the SushiSwap quote b of the tick, the profit is
\* non-decreasing in |a - b|: against every other valid quote a2, the raw
\* profit and the f64 profit estimate are ordered as the differences are.
C15_ProfitMonotone ==
    Evaluated =>
        LET b  == ev.dex2_price_raw.lo
            d1 == AbsDiff(ev.dex1_price_raw.lo, b)
        IN  \A a2 \in ValidLows :
              LET d2 == AbsDiff(a2, b)
                  p2 == Profit(d2, ev.gas_cost)
              IN  /\ d1 <= d2 => /\ ev.profit <= p2
                                 /\ ~F64Gt(ev.profit_in_usdc, ProfitInUsdc(p2))
                  /\ d2 <= d1 => /\ p2 <= ev.profit
                                 /\ ~F64Gt(ProfitInUsdc(p2), ev.profit_in_usdc)

C15_Witness ==
    /\ Evaluated
    /\ ev.dex1_price_raw = U256From(1000249)
    /\ ev.dex2_price_raw = U256From(1000000)
    /\ ev.gas_cost = 20000
    /\ ev.profit = 0
    /\ Profit(AbsDiff(2000000, 1000000), ev.gas_cost) = 980000

\* C16: a failed insert is never swallowed: when the evaluation finds an
\* opportunity and no row is written, main returns the insert error, and
\* "Saved to database!" is printed only by a tick whose row is in the store.
C16_InsertFailureSurfaced ==
    /\ [][(pc = "Evaluating" /\ InLog("!!!! Arbitrage found !!!!")' /\ store' = store)
          => /\ result' = "Err(insert)"
             /\ pc' = "Exited"
             /\ ~InLog("Saved to database!")']_vars
    /\ [](InLog("Saved to database!") => RowsOfThisTick # {})
    /\ [](result = "Err(insert)" => pc = "Exited" /\ ~InLog("Saved to database!"))

C16_Witness ==
    /\ result = "Err(insert)"
    /\ pc = "Exited"
    /\ InLog("!!!! Arbitrage found !!!!")
    /\ ~InLog("Saved to database!")
    /\ ev.profit = 30000
    /\ store = <<>>

InLoop == pc \in {"Idle", "FetchingDex1", "FetchingDex2", "Evaluating"}

\* C17: the loop runs only with the table created and the connection open:
\* no tick, no resolved call and no row before that, and when init_db or the
\* opening of the connection fails, main has ended and no tick ever runs.
C17_StoreReadyBeforeFirstTick ==
    /\ []((InLoop \/ ticks > 0 \/ resolved # {} \/ InsertedRows # {})
          => table_created /\ con_open)
    /\ [](result \in {"Err(init_db)", "Err(open_db)"}
          => pc = "Exited" /\ ticks = 0 /\ InsertedRows = {} /\ ~con_open)
    /\ [][(result \in {"Err(init_db)", "Err(open_db)"})
          => (ticks' = ticks /\ store' = store)]_vars

C17_Witness ==
    /\ pc = "FetchingDex1"
    /\ ticks = 1
    /\ table_created
    /\ con_open
    /\ store = <<>>

\* C18: with an ABI that describes getAmountsOut, the loop cycles
\* Idle -> Fetching -> Evaluating -> Idle and has no terminal state: every
\* step of a tick leads to the next state of the cycle (a failing insert,
\* which the claim assumes away, is left aside).
C18_LoopCyclesWithoutEnd ==
    [][abi_json
       => /\ pc = "Idle" => pc' \in {"Idle", "FetchingDex1"}
          /\ pc = "FetchingDex1" => pc' \in {"FetchingDex1", "FetchingDex2"}
          /\ pc = "FetchingDex2" => pc' \in {"FetchingDex2", "Evaluating"}
          /\ pc = "Evaluating" => \/ pc' \in {"Evaluating", "Idle"}
                                  \/ result' = "Err(insert)"]_vars

\* C19: an answer with fewer than two elements is treated as a zero quote:
\* the price read from it is zero, the evaluation prints "invalid price",
\* writes no row and returns to Idle with the process running.
C19_ShortAnswerIsZeroQuote ==
    /\ [][(pc = "Evaluating" /\ (Len(dex1_out) < 2 \/ Len(dex2_out) < 2))
          => /\ Len(dex1_out) < 2 => ev'.dex1_price_raw = U256Zero
             /\ Len(dex2_out) < 2 => ev'.dex2_price_raw = U256Zero
             /\ log' = Append(log, "invalid price")
             /\ store' = store
             /\ next_id' = next_id
             /\ pc' = "Idle"
             /\ result' = "running"]_vars
    /\ []((pc = "Idle" /\ Len(dex1_out) < 2 /\ resolved = Venues /\ ticks < MaxTicks)
          => ENABLED Tick)

C19_Witness ==
    /\ pc = "Idle"
    /\ result = "running"
    /\ dex1_out = <<U256From(2000000)>>
    /\ dex2_out = <<TradeAmount, U256From(1000249)>>
    /\ ~InLog("error in quickswap")
    /\ InLog("invalid price")
    /\ config_toml.min_profit_threshold < 0
    /\ store = <<>>
    /\ ticks = 1
    /\ ENABLED Tick
====
